---------------------------- MODULE Spec2Model ----------------------------
(***************************************************************************)
(* A model of poc/vibevoice-pytorch/run.py: the voice-prompt cache         *)
(* (download_voice_prompt), device/dtype resolution (get_device_dtype),    *)
(* model loading with its fallback (load_model), synthesis dispatch        *)
(* (synthesize_vibevoice) and the command-line runner (main).              *)
(*                                                                         *)
(* External collaborators (the network, torch, the vibevoice and           *)
(* transformers packages, soundfile) are the environment: each call into   *)
(* them has a nondeterministic outcome drawn from a small set.             *)
(***************************************************************************)
EXTENDS Naturals, Sequences, FiniteSets

(***************************************************************************)
(* Bounds of the model.                                                    *)
(***************************************************************************)
\* Direct calls of download_voice_prompt one process makes one after the other.
MaxCalls == 3
\* Cache files earlier runs have left on disk when main starts.
MaxPrior == 1

(***************************************************************************)
(* Program constants.                                                      *)
(***************************************************************************)
\* The keys of VOICE_PROMPTS.
Voices == {"Carter", "Nicole", "Aria", "Daphne", "Jessica", "Ruby"}

DEFAULT_SAMPLE_RATE == 22050

\* hashlib.md5(url.encode()).hexdigest()[:8] of each entry's url.
UrlHash(voice) ==
  CASE voice = "Carter"  -> "8ddda9fc"
    [] voice = "Nicole"  -> "ede6356a"
    [] voice = "Aria"    -> "ff4cb8ad"
    [] voice = "Daphne"  -> "b8c160bf"
    [] voice = "Jessica" -> "573a2b55"
    [] voice = "Ruby"    -> "8cba62b3"

\* cache_dir / f"{voice}_{url_hash}.wav", cache_dir being
\* $HF_HOME/vibevoice_prompts (HF_HOME is the same for every process).
CachePath(voice) ==
  "vibevoice_prompts/" \o voice \o "_" \o UrlHash(voice) \o ".wav"

CachePaths == {CachePath(v) : v \in Voices}

(***************************************************************************)
(* The environment's input sets.                                           *)
(***************************************************************************)
\* A voice name the caller may pass: the six known ones and an unknown one.
VoiceArgs == Voices \cup {"Bob"}

\* What a file on disk holds: nothing (no file), zero bytes, or all of them.
Contents == {"absent", "empty", "complete"}

\* Requested device strings; argparse admits the first three only.
CliDevices == {"cpu", "cuda", "mps"}
AnyDevices == CliDevices \cup {"tpu"}

\* Sample rates the specialized model.tts may return.
TtsRates == {22050, 24000}

\* Sample counts of a synthesized waveform.
SampleCounts == {1, 2}

NoPath == "<none>"

(***************************************************************************)
(* get_device_dtype                                                        *)
(***************************************************************************)
GetDeviceDtype(device, mpsAvail, cudaAvail) ==
  IF device = "mps"
    THEN [device |-> IF ~mpsAvail THEN "cpu" ELSE device, dtype |-> "float16"]
    ELSE IF device = "cuda"
      THEN [device |-> IF ~cudaAvail THEN "cpu" ELSE device,
            dtype |-> "float16"]
      ELSE [device |-> "cpu", dtype |-> "float32"]

(***************************************************************************)
(* load_model and load_model_transformers                                  *)
(*                                                                         *)
(* A model handle is [type, keys]: an instance of the VibeVoice class, or  *)
(* a dict with the given keys.  A result is [kind, handle, exc, fallback]; *)
(* fallback records that the "vibevoice package not found" branch ran.     *)
(***************************************************************************)
VibeHandle == [type |-> "VibeVoice", keys |-> {}]
PairHandle == [type |-> "dict", keys |-> {"model", "processor"}]
NoHandle   == [type |-> "none", keys |-> {}]

\* Outcomes of the external calls load_model makes, in the order it makes
\* them.  "ok" or the class of the exception raised.
LoadEnvs ==
  [importVibe : {"ok", "ImportError"},
   fromPretrained : {"ok", "ImportError", "OSError"},
   moveTo : {"ok", "RuntimeError"},
   tfImport : {"ok", "ImportError"},
   tfModel : {"ok", "OSError"},
   tfMoveTo : {"ok", "RuntimeError"},
   tfProcessor : {"ok", "OSError"}]

LoadOk(handle, fb) ==
  [kind |-> "ok", handle |-> handle, exc |-> "none", fallback |-> fb]
LoadRaise(exc, fb) ==
  [kind |-> "raise", handle |-> NoHandle, exc |-> exc, fallback |-> fb]

LoadModelTransformers(env) ==
  IF env.tfImport # "ok" THEN LoadRaise(env.tfImport, TRUE)
  ELSE IF env.tfModel # "ok" THEN LoadRaise(env.tfModel, TRUE)
  ELSE IF env.tfMoveTo # "ok" THEN LoadRaise(env.tfMoveTo, TRUE)
  ELSE IF env.tfProcessor # "ok" THEN LoadRaise(env.tfProcessor, TRUE)
  ELSE LoadOk(PairHandle, TRUE)

\* The first exception the try block raises, or "ok".
LoadTryOutcome(env) ==
  IF env.importVibe # "ok" THEN env.importVibe
  ELSE IF env.fromPretrained # "ok" THEN env.fromPretrained
  ELSE env.moveTo

LoadModel(env) ==
  LET t == LoadTryOutcome(env) IN
  IF t = "ok" THEN LoadOk(VibeHandle, FALSE)
  ELSE IF t = "ImportError" THEN LoadModelTransformers(env)
  ELSE LoadRaise(t, FALSE)

(***************************************************************************)
(* synthesize_vibevoice and synthesize_transformers                        *)
(*                                                                         *)
(* A result is [kind, audio, sr, route, exc, msg]: audio is the sample     *)
(* count of the waveform, route the routine that produced it.              *)
(***************************************************************************)
Handles ==
  {VibeHandle, PairHandle,
   [type |-> "dict", keys |-> {"model"}],
   [type |-> "dict", keys |-> {}],
   [type |-> "other", keys |-> {}]}

SynthEnvs ==
  [importVibe : {"ok", "ImportError"},
   tts : {"ok", "AttributeError", "ImportError", "RuntimeError"},
   ttsSr : TtsRates,
   sfRead : {"ok", "LibsndfileError"},
   generate : {"audio_attr", "tensor", "other_type", "RuntimeError"},
   samples : SampleCounts]

INCOMPATIBLE == "Unable to synthesize: incompatible model type"

SynthOk(audio, sr, route) ==
  [kind |-> "ok", audio |-> audio, sr |-> sr, route |-> route,
   exc |-> "none", msg |-> "none"]
SynthRaise(exc, msg, route) ==
  [kind |-> "raise", audio |-> 0, sr |-> 0, route |-> route,
   exc |-> exc, msg |-> msg]

SynthesizeTransformers(env) ==
  IF env.sfRead # "ok" THEN SynthRaise(env.sfRead, "sf.read", "transformers")
  ELSE IF env.generate = "RuntimeError"
    THEN SynthRaise("RuntimeError", "generate", "transformers")
  ELSE IF env.generate = "other_type"
    THEN SynthRaise("RuntimeError", "Unexpected output type", "transformers")
  ELSE SynthOk(env.samples, DEFAULT_SAMPLE_RATE, "transformers")

IsPair(model) ==
  model.type = "dict" /\ "model" \in model.keys /\ "processor" \in model.keys

\* What follows the try block: the transformers fallback or the final raise.
SynthAfterTry(model, env) ==
  IF IsPair(model) THEN SynthesizeTransformers(env)
  ELSE SynthRaise("RuntimeError", INCOMPATIBLE, "none")

SynthesizeVibevoice(model, env) ==
  IF env.importVibe # "ok" THEN SynthAfterTry(model, env)
  ELSE IF model.type = "VibeVoice"
    THEN IF env.tts = "ok" THEN SynthOk(env.samples, env.ttsSr, "tts")
         ELSE IF env.tts \in {"ImportError", "AttributeError"}
           THEN SynthAfterTry(model, env)
         ELSE SynthRaise(env.tts, "model.tts", "tts")
    ELSE SynthAfterTry(model, env)

(* State.                                                                  *)
(***************************************************************************)
Procs == {1, 2, 3}
\* The process that runs main in Spec, and calls in SpecCache.
MainProc == 1

NONE == "<None>"

VARIABLES
  cacheDir,    \* whether $HF_HOME/vibevoice_prompts exists
  cacheFiles,  \* what each cache file holds
  outFile,     \* the file at --out
  pc,          \* each process's position
  dl,          \* each process's frame of download_voice_prompt
  calls,       \* each process's count of direct calls
  args,        \* main: the parsed arguments
  dev,         \* main: (device, dtype) and the availability they come from
  vpath,       \* main: voice_prompt_path
  model,       \* main: the result of load_model
  synth,       \* main: the result of synthesize_vibevoice
  caught,      \* main: the exception the try block caught
  exitCode,    \* main: the process's exit status
  ran,         \* main: the stages this run has entered, in order
  lastRet,     \* the path the last successful call returned, per voice
  unit         \* the last application of a function on its own

fsVars   == <<cacheDir, cacheFiles, outFile>>
dlVars   == <<pc, dl, calls, lastRet>>
mainVars == <<args, dev, vpath, model, synth, caught, exitCode, ran>>
vars     == <<cacheDir, cacheFiles, outFile, pc, dl, calls, args, dev, vpath,
              model, synth, caught, exitCode, ran, lastRet, unit>>

NoFrame ==
  [voice |-> NONE, force |-> FALSE, path |-> NoPath, existed |-> FALSE,
   fetched |-> FALSE, wrote |-> FALSE, res |-> "none", ret |-> NoPath,
   prevRet |-> NoPath]

NoOut == [st |-> "absent", audio |-> 0, sr |-> 0]
NoArgs ==
  [list_voices |-> FALSE, text |-> NONE, device |-> "mps", voice |-> "Carter",
   voice_prompt |-> NONE, force_download |-> FALSE]
NoDev == [device |-> NONE, dtype |-> NONE]
NoSynth ==
  [kind |-> "none", audio |-> 0, sr |-> 0, route |-> "none", exc |-> "none",
   msg |-> "none"]
NoModel ==
  [kind |-> "none", handle |-> NoHandle, exc |-> "none", fallback |-> FALSE]
NoUnit == [fn |-> "none"]

Init ==
  /\ cacheDir = FALSE
  /\ cacheFiles = [f \in CachePaths |-> "absent"]
  /\ outFile = NoOut
  /\ pc = [p \in Procs |-> "idle"]
  /\ dl = [p \in Procs |-> NoFrame]
  /\ calls = [p \in Procs |-> 0]
  /\ args = NoArgs
  /\ dev = NoDev
  /\ vpath = NoPath
  /\ model = NoModel
  /\ synth = NoSynth
  /\ caught = NONE
  /\ exitCode = NONE
  /\ ran = <<>>
  /\ lastRet = [v \in Voices |-> NoPath]
  /\ unit = NoUnit

(***************************************************************************)
(* download_voice_prompt, one action per step that reads or writes the     *)
(* file system or the network.                                             *)
(***************************************************************************)
\* The frame of a call just entered.  existed and prevRet record what the
\* call found: whether the cache file was there, and the path an earlier
\* successful call for the voice returned.
DlFrame(p, voice, force) ==
  [NoFrame EXCEPT
     !.voice = voice, !.force = force,
     !.existed = (voice \in Voices /\ cacheFiles[CachePath(voice)] # "absent"),
     !.prevRet = IF voice \in Voices THEN lastRet[voice] ELSE NoPath]

\* A variant that validates the name only once the cache directory is made
\* and the server has been contacted.
DlCheckVoice_AfterFetch(p) ==
  /\ pc[p] = "dl_entry"
  /\ cacheDir' = TRUE
  /\ IF dl[p].voice \notin Voices
       THEN /\ dl' = [dl EXCEPT ![p].res = "ValueError", ![p].fetched = TRUE]
            /\ pc' = [pc EXCEPT ![p] = "dl_raised"]
       ELSE /\ dl' = [dl EXCEPT ![p].path = CachePath(dl[p].voice)]
            /\ pc' = [pc EXCEPT ![p] = "dl_exists"]
  /\ UNCHANGED <<cacheFiles, outFile, calls, lastRet, mainVars, unit>>

\* Lines 68-78: the membership test, then get_cache_dir()'s mkdir and the
\* cache path.
DlCheckVoice(p) ==
  /\ pc[p] = "dl_entry"
  /\ IF dl[p].voice \notin Voices
       THEN /\ dl' = [dl EXCEPT ![p].res = "ValueError"]
            /\ pc' = [pc EXCEPT ![p] = "dl_raised"]
            /\ UNCHANGED cacheDir
       ELSE /\ cacheDir' = TRUE
            /\ dl' = [dl EXCEPT ![p].path = CachePath(dl[p].voice)]
            /\ pc' = [pc EXCEPT ![p] = "dl_exists"]
  /\ UNCHANGED <<cacheFiles, outFile, calls, lastRet, mainVars, unit>>

\* A variant with the flag's sense inverted: exists() and force.
CacheHit_ForceInverted(p) == cacheFiles[dl[p].path] # "absent" /\ dl[p].force

\* Line 80: cache_path.exists() and not force.
CacheHit(p) == cacheFiles[dl[p].path] # "absent" /\ ~dl[p].force

\* Lines 80-81.
DlExists(p) ==
  /\ pc[p] = "dl_exists"
  /\ IF CacheHit(p)
       THEN /\ dl' = [dl EXCEPT ![p].res = "ok", ![p].ret = dl[p].path]
            /\ lastRet' = [lastRet EXCEPT ![dl[p].voice] = dl[p].path]
            /\ pc' = [pc EXCEPT ![p] = "dl_returned"]
       ELSE /\ pc' = [pc EXCEPT ![p] = "dl_urlopen"]
            /\ UNCHANGED <<dl, lastRet>>
  /\ UNCHANGED <<fsVars, calls, mainVars, unit>>

\* Line 94: urlopen answers.
DlUrlopenOk(p) ==
  /\ pc[p] = "dl_urlopen"
  /\ dl' = [dl EXCEPT ![p].fetched = TRUE]
  /\ pc' = [pc EXCEPT ![p] = "dl_open"]
  /\ UNCHANGED <<fsVars, calls, lastRet, mainVars, unit>>

\* Line 94 raises (no connection, HTTP error, timeout); lines 101-102.
DlUrlopenFail(p) ==
  /\ pc[p] = "dl_urlopen"
  /\ dl' = [dl EXCEPT ![p].fetched = TRUE, ![p].res = "RuntimeError"]
  /\ pc' = [pc EXCEPT ![p] = "dl_raised"]
  /\ UNCHANGED <<fsVars, calls, lastRet, mainVars, unit>>

\* Line 95: open(cache_path, "wb") creates the file or truncates it.
DlOpen(p) ==
  /\ pc[p] = "dl_open"
  /\ cacheFiles' = [cacheFiles EXCEPT ![dl[p].path] = "empty"]
  /\ dl' = [dl EXCEPT ![p].wrote = TRUE]
  /\ pc' = [pc EXCEPT ![p] = "dl_read"]
  /\ UNCHANGED <<cacheDir, outFile, calls, lastRet, mainVars, unit>>

\* Line 96: response.read() returns the whole body.
DlReadOk(p) ==
  /\ pc[p] = "dl_read"
  /\ pc' = [pc EXCEPT ![p] = "dl_write"]
  /\ UNCHANGED <<fsVars, dl, calls, lastRet, mainVars, unit>>

\* Line 96: response.read() raises (timeout, IncompleteRead); the with
\* blocks close the file as it is, then lines 101-102.
DlReadFail(p) ==
  /\ pc[p] = "dl_read"
  /\ dl' = [dl EXCEPT ![p].res = "RuntimeError"]
  /\ pc' = [pc EXCEPT ![p] = "dl_raised"]
  /\ UNCHANGED <<fsVars, calls, lastRet, mainVars, unit>>

\* A variant that returns the path without the body reaching the file.
DlWrite_Nothing(p) ==
  /\ pc[p] = "dl_write"
  /\ dl' = [dl EXCEPT ![p].res = "ok", ![p].ret = dl[p].path]
  /\ lastRet' = [lastRet EXCEPT ![dl[p].voice] = dl[p].path]
  /\ pc' = [pc EXCEPT ![p] = "dl_returned"]
  /\ UNCHANGED <<fsVars, calls, mainVars, unit>>

\* Lines 96-99: f.write(body), the file is closed, the path returned.
DlWrite(p) ==
  /\ pc[p] = "dl_write"
  /\ cacheFiles' = [cacheFiles EXCEPT ![dl[p].path] = "complete"]
  /\ dl' = [dl EXCEPT ![p].res = "ok", ![p].ret = dl[p].path]
  /\ lastRet' = [lastRet EXCEPT ![dl[p].voice] = dl[p].path]
  /\ pc' = [pc EXCEPT ![p] = "dl_returned"]
  /\ UNCHANGED <<cacheDir, outFile, calls, mainVars, unit>>

\* A caller other than main calls download_voice_prompt(voice, force).
DirectCall(p) ==
  /\ pc[p] = "idle"
  /\ \E voice \in VoiceArgs, force \in BOOLEAN :
       dl' = [dl EXCEPT ![p] = DlFrame(p, voice, force)]
  /\ pc' = [pc EXCEPT ![p] = "dl_entry"]
  /\ calls' = [calls EXCEPT ![p] = 1]
  /\ UNCHANGED <<fsVars, lastRet, mainVars, unit>>

\* The same caller calls it again once the call before has ended.
RepeatCall(p) ==
  /\ pc[p] \in {"dl_returned", "dl_raised"}
  /\ calls[p] < MaxCalls
  /\ \E voice \in VoiceArgs, force \in BOOLEAN :
       dl' = [dl EXCEPT ![p] = DlFrame(p, voice, force)]
  /\ pc' = [pc EXCEPT ![p] = "dl_entry"]
  /\ calls' = [calls EXCEPT ![p] = calls[p] + 1]
  /\ UNCHANGED <<fsVars, lastRet, mainVars, unit>>

\* One process calling download_voice_prompt time after time.
NextCache ==
  \/ DirectCall(MainProc)
  \/ RepeatCall(MainProc)
  \/ DlCheckVoice(MainProc)
  \/ DlExists(MainProc)
  \/ DlUrlopenOk(MainProc)
  \/ DlUrlopenFail(MainProc)
  \/ DlOpen(MainProc)
  \/ DlReadOk(MainProc)
  \/ DlReadFail(MainProc)
  \/ DlWrite(MainProc)

SpecCache == Init /\ [][NextCache]_vars

\* Processes calling it once each, side by side, against the same cache
\* directory and on a network that does not fail.
NextConc ==
  \E p \in Procs :
    \/ DirectCall(p)
    \/ DlCheckVoice(p)
    \/ DlExists(p)
    \/ DlUrlopenOk(p)
    \/ DlOpen(p)
    \/ DlReadOk(p)
    \/ DlWrite(p)

SpecConc == Init /\ [][NextConc]_vars

(***************************************************************************)
(* main: one process, one run.  Earlier runs show in what is on disk when  *)
(* it starts.                                                              *)
(***************************************************************************)
\* Python's truth of an optional string argument.
Truthy(str) == str \notin {NONE, ""}

\* The files a --voice-prompt argument may name that exist on disk.
UserFiles == {"user.wav"}

ArgSets ==
  [list_voices : BOOLEAN,
   text : {NONE, "", "Hello world"},
   device : CliDevices,
   voice : VoiceArgs,
   voice_prompt : {NONE, "user.wav", "missing.wav"},
   force_download : BOOLEAN]

Stages == <<"device", "voice", "load", "synth", "write">>

Written(audio, sr) == [st |-> "written", audio |-> audio, sr |-> sr]
\* An output file an earlier run wrote.
OldOut == [st |-> "old", audio |-> 0, sr |-> 0]
\* An output file whose writing broke off.
PartialOut == [st |-> "partial", audio |-> 0, sr |-> 0]

\* Cache directories earlier runs can have left: at most MaxPrior files,
\* each empty (its download broke off) or complete.
PriorCaches ==
  {c \in [CachePaths -> Contents] :
     Cardinality({f \in CachePaths : c[f] # "absent"}) <= MaxPrior}

InitMain ==
  /\ cacheFiles \in PriorCaches
  /\ cacheDir \in BOOLEAN
  /\ (\E f \in CachePaths : cacheFiles[f] # "absent") => cacheDir
  /\ outFile \in {NoOut, OldOut}
  /\ pc = [p \in Procs |-> "idle"]
  /\ dl = [p \in Procs |-> NoFrame]
  /\ calls = [p \in Procs |-> 0]
  /\ args = NoArgs
  /\ dev = NoDev
  /\ vpath = NoPath
  /\ model = NoModel
  /\ synth = NoSynth
  /\ caught = NONE
  /\ exitCode = NONE
  /\ ran = <<>>
  /\ lastRet = [v \in Voices |-> NoPath]
  /\ unit = NoUnit

\* return 0, return 1 or parser.error's exit 2; e is the exception caught.
Exit(code, e) ==
  /\ exitCode' = code
  /\ caught' = e
  /\ pc' = [pc EXCEPT ![MainProc] = "exit"]

\* Line 335: parse_args.
MainStart ==
  /\ pc[MainProc] = "idle"
  /\ args' \in ArgSets
  /\ pc' = [pc EXCEPT ![MainProc] = "main_args"]
  /\ UNCHANGED <<fsVars, dl, calls, lastRet, dev, vpath, model, synth, caught,
                 exitCode, ran, unit>>

\* Lines 338-340.
MainListVoices ==
  /\ pc[MainProc] = "main_args"
  /\ args.list_voices
  /\ Exit(0, NONE)
  /\ UNCHANGED <<fsVars, dl, calls, lastRet, args, dev, vpath, model, synth,
                 ran, unit>>

\* A variant that asks for --text before it looks at --list-voices.
MainUsageError_BeforeListVoices ==
  /\ pc[MainProc] = "main_args"
  /\ ~Truthy(args.text)
  /\ Exit(2, NONE)
  /\ UNCHANGED <<fsVars, dl, calls, lastRet, args, dev, vpath, model, synth,
                 ran, unit>>

\* Lines 343-344: parser.error exits with status 2.
MainUsageError ==
  /\ pc[MainProc] = "main_args"
  /\ ~args.list_voices
  /\ ~Truthy(args.text)
  /\ Exit(2, NONE)
  /\ UNCHANGED <<fsVars, dl, calls, lastRet, args, dev, vpath, model, synth,
                 ran, unit>>

\* Line 348.
MainGetDevice ==
  /\ pc[MainProc] = "main_args"
  /\ ~args.list_voices
  /\ Truthy(args.text)
  /\ \E mpsAvail \in BOOLEAN, cudaAvail \in BOOLEAN :
       dev' = GetDeviceDtype(args.device, mpsAvail, cudaAvail)
  /\ ran' = Append(ran, "device")
  /\ pc' = [pc EXCEPT ![MainProc] = "main_voice"]
  /\ UNCHANGED <<fsVars, dl, calls, lastRet, args, vpath, model, synth, caught,
                 exitCode, unit>>

\* Lines 352-359: the user's file, or the call of download_voice_prompt.
MainVoicePrompt ==
  /\ pc[MainProc] = "main_voice"
  /\ ran' = Append(ran, "voice")
  /\ IF Truthy(args.voice_prompt)
       THEN /\ IF args.voice_prompt \in UserFiles
                 THEN /\ vpath' = args.voice_prompt
                      /\ pc' = [pc EXCEPT ![MainProc] = "main_load"]
                      /\ UNCHANGED <<caught, exitCode>>
                 ELSE /\ Exit(1, "FileNotFoundError")
                      /\ UNCHANGED vpath
            /\ UNCHANGED dl
       ELSE /\ dl' = [dl EXCEPT ![MainProc] =
                        DlFrame(MainProc, args.voice, args.force_download)]
            /\ pc' = [pc EXCEPT ![MainProc] = "dl_entry"]
            /\ UNCHANGED <<vpath, caught, exitCode>>
  /\ UNCHANGED <<fsVars, calls, lastRet, args, dev, model, synth, unit>>

\* Line 357: download_voice_prompt returns.
MainVoiceReturned ==
  /\ pc[MainProc] = "dl_returned"
  /\ vpath' = dl[MainProc].ret
  /\ pc' = [pc EXCEPT ![MainProc] = "main_load"]
  /\ UNCHANGED <<fsVars, dl, calls, lastRet, args, dev, model, synth, caught,
                 exitCode, ran, unit>>

\* Line 357: download_voice_prompt raises; lines 384-389.
MainVoiceRaised ==
  /\ pc[MainProc] = "dl_raised"
  /\ Exit(1, dl[MainProc].res)
  /\ UNCHANGED <<fsVars, dl, calls, lastRet, args, dev, vpath, model, synth,
                 ran, unit>>

\* What load_model can do, over every outcome of the calls it makes.
LoadResults == {LoadModel(env) : env \in LoadEnvs}

\* A variant that goes on to synthesis whatever load_model did.
MainLoadModel_IgnoreFailure ==
  /\ pc[MainProc] = "main_load"
  /\ ran' = Append(ran, "load")
  /\ model' \in LoadResults
  /\ pc' = [pc EXCEPT ![MainProc] = "main_synth"]
  /\ UNCHANGED <<caught, exitCode>>
  /\ UNCHANGED <<fsVars, dl, calls, lastRet, args, dev, vpath, synth, unit>>

\* Line 364.
MainLoadModel ==
  /\ pc[MainProc] = "main_load"
  /\ ran' = Append(ran, "load")
  /\ model' \in LoadResults
  /\ IF model'.kind = "ok"
       THEN /\ pc' = [pc EXCEPT ![MainProc] = "main_synth"]
            /\ UNCHANGED <<caught, exitCode>>
       ELSE Exit(1, model'.exc)
  /\ UNCHANGED <<fsVars, dl, calls, lastRet, args, dev, vpath, synth, unit>>

\* What sf.read may make of the voice prompt: a cache file that is not
\* complete is no WAV file; a file of the user's may be one or not.
SfReadOutcomes ==
  IF vpath \in CachePaths
    THEN IF cacheFiles[vpath] = "complete" THEN {"ok"} ELSE {"LibsndfileError"}
    ELSE {"ok", "LibsndfileError"}

\* What synthesize_vibevoice can do with a handle load_model returned, by
\* the outcome of sf.read, over every outcome of the other calls it makes.
\* An instance of VibeVoice exists only where the package imports.
SynthResults ==
  [h \in {VibeHandle, PairHandle}, r \in {"ok", "LibsndfileError"} |->
     {SynthesizeVibevoice(h, env) :
        env \in {e \in SynthEnvs :
                   /\ e.sfRead = r
                   /\ h.type = "VibeVoice" => e.importVibe = "ok"}}]

\* Lines 368-374.
MainSynthesize ==
  /\ pc[MainProc] = "main_synth"
  /\ ran' = Append(ran, "synth")
  /\ \E r \in SfReadOutcomes : synth' \in SynthResults[model.handle, r]
  /\ IF synth'.kind = "ok"
       THEN /\ pc' = [pc EXCEPT ![MainProc] = "main_write"]
            /\ UNCHANGED <<caught, exitCode>>
       ELSE Exit(1, synth'.exc)
  /\ UNCHANGED <<fsVars, dl, calls, lastRet, args, dev, vpath, model, unit>>

\* A variant that always writes the default sample rate.
MainWriteOk_DefaultRate ==
  /\ pc[MainProc] = "main_write"
  /\ ran' = Append(ran, "write")
  /\ outFile' = Written(synth.audio, DEFAULT_SAMPLE_RATE)
  /\ Exit(0, NONE)
  /\ UNCHANGED <<cacheDir, cacheFiles, dl, calls, lastRet, args, dev, vpath,
                 model, synth, unit>>

\* Lines 377-382: sf.write succeeds.
MainWriteOk ==
  /\ pc[MainProc] = "main_write"
  /\ ran' = Append(ran, "write")
  /\ outFile' = Written(synth.audio, synth.sr)
  /\ Exit(0, NONE)
  /\ UNCHANGED <<cacheDir, cacheFiles, dl, calls, lastRet, args, dev, vpath,
                 model, synth, unit>>

\* Lines 377-379: mkdir or sf.write raises, before the file is touched or
\* with part of it written; lines 384-389.
MainWriteFail ==
  /\ pc[MainProc] = "main_write"
  /\ ran' = Append(ran, "write")
  /\ outFile' \in {outFile, PartialOut}
  /\ Exit(1, "OSError")
  /\ UNCHANGED <<cacheDir, cacheFiles, dl, calls, lastRet, args, dev, vpath,
                 model, synth, unit>>

Next ==
  \/ MainStart
  \/ MainListVoices
  \/ MainUsageError
  \/ MainGetDevice
  \/ MainVoicePrompt
  \/ DlCheckVoice(MainProc)
  \/ DlExists(MainProc)
  \/ DlUrlopenOk(MainProc)
  \/ DlUrlopenFail(MainProc)
  \/ DlOpen(MainProc)
  \/ DlReadOk(MainProc)
  \/ DlReadFail(MainProc)
  \/ DlWrite(MainProc)
  \/ MainVoiceReturned
  \/ MainVoiceRaised
  \/ MainLoadModel
  \/ MainSynthesize
  \/ MainWriteOk
  \/ MainWriteFail

Spec == InitMain /\ [][Next]_vars

(***************************************************************************)
(* The pure functions applied on their own to inputs of the sets above.    *)
(***************************************************************************)
ApplyGetDeviceDtype ==
  /\ unit = NoUnit
  /\ \E device \in AnyDevices, mpsAvail \in BOOLEAN, cudaAvail \in BOOLEAN :
       unit' = [fn |-> "get_device_dtype",
                in |-> [device |-> device, mps |-> mpsAvail,
                        cuda |-> cudaAvail],
                out |-> GetDeviceDtype(device, mpsAvail, cudaAvail)]
  /\ UNCHANGED <<fsVars, dlVars, mainVars>>

ApplyLoadModel ==
  /\ unit = NoUnit
  /\ \E env \in LoadEnvs :
       unit' = [fn |-> "load_model", in |-> env, out |-> LoadModel(env)]
  /\ UNCHANGED <<fsVars, dlVars, mainVars>>

\* An instance of VibeVoice exists only where the package imports.
ApplySynthesize ==
  /\ unit = NoUnit
  /\ \E handle \in Handles, env \in SynthEnvs :
       /\ handle.type = "VibeVoice" => env.importVibe = "ok"
       /\ unit' = [fn |-> "synthesize_vibevoice",
                   in |-> [model |-> handle, env |-> env],
                   out |-> SynthesizeVibevoice(handle, env)]
  /\ UNCHANGED <<fsVars, dlVars, mainVars>>

NextUnit == ApplyGetDeviceDtype \/ ApplyLoadModel \/ ApplySynthesize

SpecUnit == Init /\ [][NextUnit]_vars

(***************************************************************************)
(* Properties: get_device_dtype, load_model, synthesize_vibevoice          *)
(***************************************************************************)
\* The precision a request for a device yields where the device is there.
PrecisionOf(device) == GetDeviceDtype(device, TRUE, TRUE).dtype

\* C1: get_device_dtype returns the precision of the device it resolves to:
\* a request for cuda or mps on hardware without it yields (cpu, float32),
\* what a request for cpu yields, and in every case the precision returned
\* is the one of the device returned.
C1_PrecisionOfResolvedDevice ==
  unit.fn = "get_device_dtype" =>
    /\ (unit.in.device = "mps" /\ ~unit.in.mps) =>
         unit.out = [device |-> "cpu", dtype |-> PrecisionOf("cpu")]
    /\ (unit.in.device = "cuda" /\ ~unit.in.cuda) =>
         unit.out = [device |-> "cpu", dtype |-> PrecisionOf("cpu")]
    /\ unit.out.dtype = PrecisionOf(unit.out.device)

\* C8: load_model takes the transformers fallback exactly when the vibevoice
\* import fails; it returns a single handle from the specialized path and a
\* {model, processor} pair from the fallback; any other failure of the
\* specialized path is propagated and the fallback is not tried.
C8_FallbackIffImportFails ==
  unit.fn = "load_model" =>
    /\ unit.out.fallback <=> unit.in.importVibe # "ok"
    /\ unit.out.kind = "ok" =>
         unit.out.handle = IF unit.out.fallback THEN PairHandle ELSE VibeHandle
    /\ (unit.in.importVibe = "ok" /\ LoadTryOutcome(unit.in) # "ok") =>
         /\ unit.out.kind = "raise"
         /\ unit.out.exc = LoadTryOutcome(unit.in)

\* C7: synthesize_vibevoice routes a VibeVoice handle through model.tts and
\* a {model, processor} pair through synthesize_transformers, and raises
\* "incompatible model type" if and only if the handle has neither shape.
C7_IncompatibleIffNeitherShape ==
  unit.fn = "synthesize_vibevoice" =>
    LET m == unit.in.model
        out == unit.out
    IN /\ m.type = "VibeVoice" => out.route = "tts"
       /\ IsPair(m) => out.route = "transformers"
       /\ (out.kind = "raise" /\ out.msg = INCOMPATIBLE) <=>
            (m.type # "VibeVoice" /\ ~IsPair(m))

(***************************************************************************)
(* Properties: the voice-prompt cache, one caller                          *)
(***************************************************************************)
\* C2: a call with force=False for a voice that an earlier call returned a
\* path for returns that same path, contacts no server and does not open
\* the cache file for writing; and a call with force=False fetches or
\* writes only when the cache file was not there when the call was made.
C2_CachedCallDoesNotRefetch ==
  LET f == dl[MainProc] IN
  /\ (pc[MainProc] = "dl_returned" /\ ~f.force /\ f.prevRet # NoPath) =>
       /\ f.ret = f.prevRet
       /\ f.ret = CachePath(f.voice)
       /\ ~f.fetched
       /\ ~f.wrote
  /\ (~f.force /\ (f.fetched \/ f.wrote)) => ~f.existed

\* A second call, without force, returns the cached path of a complete file.
C2_Witness ==
  LET f == dl[MainProc] IN
  /\ pc[MainProc] = "dl_returned"
  /\ calls[MainProc] = 2
  /\ ~f.force
  /\ f.voice = "Ruby"
  /\ f.prevRet = CachePath("Ruby")
  /\ f.ret = f.prevRet
  /\ ~f.fetched

\* C3: every call that returns a path returns the path of a file holding
\* the complete audio, whatever fetches failed before.
C3_ReturnedFileIsComplete ==
  pc[MainProc] = "dl_returned" => cacheFiles[dl[MainProc].ret] = "complete"

\* The live frame of the caller is a call with an unknown voice name.
UnknownVoiceCall ==
  /\ pc[MainProc] \in {"dl_entry", "dl_exists", "dl_urlopen", "dl_open",
                       "dl_read", "dl_write", "dl_returned", "dl_raised"}
  /\ dl[MainProc].voice \notin Voices

C4_NoFetchNoWrite ==
  UnknownVoiceCall =>
    /\ pc[MainProc] \in {"dl_entry", "dl_raised"}
    /\ pc[MainProc] = "dl_raised" => dl[MainProc].res = "ValueError"
    /\ ~dl[MainProc].fetched
    /\ ~dl[MainProc].wrote

C4_CacheUntouched ==
  UnknownVoiceCall => (cacheDir' = cacheDir /\ cacheFiles' = cacheFiles)

\* C4: a call with an unknown voice name raises ValueError without
\* contacting a server, with or without force, and from its entry on no
\* step of it touches the cache directory or its files.
C4_UnknownVoiceFailsFirst ==
  []C4_NoFetchNoWrite /\ [][C4_CacheUntouched]_vars

\* A forced call with an unknown name has raised ValueError.
C4_Witness ==
  /\ pc[MainProc] = "dl_raised"
  /\ dl[MainProc].voice = "Bob"
  /\ dl[MainProc].force
  /\ dl[MainProc].res = "ValueError"

(***************************************************************************)
(* Properties: the voice-prompt cache, concurrent callers                  *)
(***************************************************************************)
\* Process q has the cache file at path open for writing, its body not yet
\* written.
Writing(q, path) == pc[q] \in {"dl_read", "dl_write"} /\ dl[q].path = path

\* C9: nothing keeps concurrent callers apart.  Where no fetch fails, a call
\* returns the path of an incomplete file only while another process has
\* that file open for writing; the witness shows that this happens, and
\* that two processes have the file open for writing at the same time.
C9_IncompleteOnlyWhileWritten ==
  \A p \in Procs :
    (pc[p] = "dl_returned" /\ cacheFiles[dl[p].ret] # "complete") =>
      \E q \in Procs \ {p} : Writing(q, dl[p].ret)

\* From an absent cache file: two processes have it open for writing at
\* once, and a third, finding that it exists, has returned its path without
\* downloading while the file is still empty.
C9_Witness ==
  \E p, q, r \in Procs :
    /\ p # q /\ p # r /\ q # r
    /\ Writing(p, CachePath("Aria"))
    /\ Writing(q, CachePath("Aria"))
    /\ ~dl[p].existed /\ ~dl[q].existed /\ ~dl[p].force /\ ~dl[q].force
    /\ pc[r] = "dl_returned"
    /\ dl[r].ret = CachePath("Aria")
    /\ ~dl[r].force /\ ~dl[r].fetched /\ ~dl[r].wrote
    /\ cacheFiles[dl[r].ret] = "empty"

(***************************************************************************)
(* Properties: main                                                        *)
(***************************************************************************)
\* The run was given --list-voices, or no --text.
EndsAtArguments ==
  pc[MainProc] # "idle" /\ (args.list_voices \/ ~Truthy(args.text))

C5_NoStageRuns ==
  EndsAtArguments =>
    /\ pc[MainProc] \in {"main_args", "exit"}
    /\ ran = <<>>
    /\ dev = NoDev /\ vpath = NoPath /\ model = NoModel /\ synth = NoSynth
    /\ dl[MainProc] = NoFrame
    /\ caught = NONE
    /\ pc[MainProc] = "exit" =>
         exitCode = IF args.list_voices THEN 0 ELSE 2

C5_DiskUntouched == EndsAtArguments => UNCHANGED fsVars

\* C5: with --list-voices main exits 0, with or without --text; without
\* --list-voices and without --text it exits 2, a usage error; in both
\* cases no device is resolved, nothing downloaded, no model loaded, and
\* no file made or written.
C5_ArgumentValidation == []C5_NoStageRuns /\ [][C5_DiskUntouched]_vars

\* --list-voices without --text has exited 0.
C5_Witness ==
  /\ pc[MainProc] = "exit"
  /\ args.list_voices
  /\ args.text = NONE
  /\ exitCode = 0

\* The stages entered are the first ones of the pipeline, in its order.
RanInOrder ==
  Len(ran) <= Len(Stages) /\ ran = SubSeq(Stages, 1, Len(ran))

C6_ExitCodes ==
  /\ RanInOrder
  /\ pc[MainProc] \notin {"exit", "dl_raised"} =>
       /\ model.kind # "raise" /\ synth.kind # "raise" /\ caught = NONE
       /\ dl[MainProc].res \in {"none", "ok"}
  /\ (pc[MainProc] = "exit" /\ ~EndsAtArguments) =>
       /\ exitCode \in {0, 1}
       /\ exitCode = 1 <=> caught # NONE
       /\ exitCode = 0 <=>
            /\ ran = Stages
            /\ vpath # NoPath /\ model.kind = "ok" /\ synth.kind = "ok"
            /\ outFile = Written(synth.audio, synth.sr)
       /\ exitCode = 1 =>
            /\ Len(ran) >= 2
            /\ Len(ran) = 2 =>
                 /\ vpath = NoPath /\ model = NoModel /\ synth = NoSynth
                 /\ caught \in {"FileNotFoundError", "ValueError",
                                "RuntimeError"}
            /\ Len(ran) = 3 =>
                 /\ vpath # NoPath /\ model.kind = "raise"
                 /\ caught = model.exc /\ synth = NoSynth
            /\ Len(ran) = 4 =>
                 /\ model.kind = "ok" /\ synth.kind = "raise"
                 /\ caught = synth.exc
            /\ Len(ran) = 5 =>
                 /\ model.kind = "ok" /\ synth.kind = "ok"
                 /\ caught = "OSError"

C6_RaiseEndsRun ==
  pc[MainProc] = "dl_raised" => (pc'[MainProc] = "exit" /\ exitCode' = 1)

\* C6: with --text given, main enters each stage at most once, in order; it
\* exits 0 exactly when all five stages succeeded, and 1 as soon as one
\* raises, the stages after it not being entered.
C6_StagesAndExitStatus == []C6_ExitCodes /\ [][C6_RaiseEndsRun]_vars

\* load_model raised after trying the fallback; the run has ended with 1.
C6_Witness ==
  /\ pc[MainProc] = "exit"
  /\ exitCode = 1
  /\ ran = <<"device", "voice", "load">>
  /\ model.kind = "raise"
  /\ model.fallback
  /\ synth = NoSynth

C10_WrittenAsSynthesized ==
  /\ (pc[MainProc] = "exit" /\ exitCode = 0 /\ ~args.list_voices) =>
       /\ synth.kind = "ok"
       /\ outFile = Written(synth.audio, synth.sr)
  /\ (synth.kind = "ok" /\ IsPair(model.handle)) =>
       /\ synth.route = "transformers"
       /\ synth.sr = DEFAULT_SAMPLE_RATE

C10_WrittenLast ==
  outFile' # outFile =>
    /\ pc[MainProc] = "main_write"
    /\ ran = <<"device", "voice", "load", "synth">>
    /\ vpath # NoPath /\ model.kind = "ok" /\ synth.kind = "ok"
    /\ outFile' \in {Written(synth.audio, synth.sr), PartialOut}

\* C10: the output file changes only in the write stage, after the four
\* stages before it succeeded, and a successful run leaves in it the
\* waveform and the sample rate synthesis returned, which is 22050 for a
\* {model, processor} pair.
C10_OutputWrittenLast == []C10_WrittenAsSynthesized /\ [][C10_WrittenLast]_vars

\* A run through model.tts has written the rate tts returned.
C10_Witness ==
  /\ pc[MainProc] = "exit"
  /\ exitCode = 0
  /\ synth.route = "tts"
  /\ synth.sr = 24000
  /\ outFile = Written(2, 24000)

=============================================================================
